---- MODULE Spec2Model ----
(***************************************************************************)
(* Ledger engine of Finan-as: accounts, categories and transactions kept   *)
(* in three SQLite tables (src/financas.py), and the month window of the   *)
(* dashboard (src/app.py).                                                 *)
(*                                                                         *)
(* Amounts are integers (cents).  TEXT values that the code compares or    *)
(* sorts (dates, names) are sequences of character codes, compared as      *)
(* SQLite's BINARY collation compares them.                                *)
(***************************************************************************)
EXTENDS Integers, Sequences, FiniteSets, TLC

VARIABLES
    conta,            \* rows of table conta:     [id, nome, saldo_inicial]
    categoria,        \* rows of table categoria: [id, nome, tipo]
    transacao,        \* rows of table transacao
    sqlite_sequence,  \* AUTOINCREMENT counters, one per table
    ret,              \* outcome of the last call: [op, erro, id]
    entrada           \* arguments of the call under test (validation harness)

vars == <<conta, categoria, transacao, sqlite_sequence, ret, entrada>>

-----------------------------------------------------------------------------
(* Bounds of the model *)

MaxContas == 2
MaxCategorias == 2
MaxTransacoes == 2

-----------------------------------------------------------------------------
(* Values *)

\* Python None / SQL NULL (row ids start at 1)
None == -1

ALLOWED_TRANSACTION_TYPES == {"receita", "despesa", "transferencia"}
ALLOWED_CATEGORY_TYPES == {"receita", "despesa"}

\* outcomes: no exception, or the exception raised
OK == "ok"
ErrTipo == "Tipo de transacao invalido"
ErrValor == "Valor da transacao nao pode ser negativo"
ErrOrigem == "Conta de origem inexistente"
ErrDestino == "Conta de destino inexistente"
ErrSemDestino == "Transferencia requer conta de destino"
ErrSemCategoria == "Transacoes de receita e despesa precisam de categoria"
ErrCategoria == "Categoria informada nao existe"
ErrIncompativel == "Categoria incompativel com o tipo de transacao"
ErrTipoCategoria == "Tipo de categoria invalido"
IntegrityError == "sqlite3.IntegrityError"

\* {n:02d} and {n:04d} of an f-string, as character codes
Fmt2(n) == <<48 + (n \div 10), 48 + (n % 10)>>
Fmt4(n) == <<48 + (n \div 1000), 48 + ((n \div 100) % 10),
             48 + ((n \div 10) % 10), 48 + (n % 10)>>

\* datetime.isoformat(timespec="seconds"): YYYY-MM-DDTHH:MM:SS
isoformat(y, mo, d, h, mi, s) ==
    Fmt4(y) \o <<45>> \o Fmt2(mo) \o <<45>> \o Fmt2(d) \o <<84>>
        \o Fmt2(h) \o <<58>> \o Fmt2(mi) \o <<58>> \o Fmt2(s)

\* strftime("%Y-%m-%d"): YYYY-MM-DD
strftime(y, mo, d) == Fmt4(y) \o <<45>> \o Fmt2(mo) \o <<45>> \o Fmt2(d)

\* SQLite comparison of two TEXT values (BINARY collation: memcmp, then length)
TextLe(a, b) ==
    LET n == IF Len(a) < Len(b) THEN Len(a) ELSE Len(b)
        dif == {i \in 1..n : a[i] # b[i]}
    IN  IF dif = {} THEN Len(a) <= Len(b)
        ELSE LET k == CHOOSE i \in dif : \A j \in dif : i <= j
             IN  a[k] < b[k]

TextLt(a, b) == TextLe(a, b) /\ a # b

\* x BETWEEN lo AND hi
Between(x, lo, hi) == TextLe(lo, x) /\ TextLe(x, hi)

\* SQLite datetime(text): 'YYYY-MM-DD HH:MM:SS'; a date alone is midnight
datetime(s) ==
    IF Len(s) = 10 THEN s \o <<32, 48, 48, 58, 48, 48, 58, 48, 48>>
    ELSE SubSeq(s, 1, 10) \o <<32>> \o SubSeq(s, 12, Len(s))

RECURSIVE Soma(_)
\* SUM(valor) over a set of rows, COALESCE(.., 0)
Soma(rows) ==
    IF rows = {} THEN 0
    ELSE LET r == CHOOSE x \in rows : TRUE
         IN  r.valor + Soma(rows \ {r})

-----------------------------------------------------------------------------
(* Names used as inputs *)

Wallet == <<87, 97, 108, 108, 101, 116>>
Bank == <<66, 97, 110, 107>>
Carteira == <<67, 97, 114, 116, 101, 105, 114, 97>>
Salary == <<83, 97, 108, 97, 114, 121>>
Food == <<70, 111, 111, 100>>
Salario == <<83, 97, 108, 195, 161, 114, 105, 111>>
Alimentacao == <<65, 108, 105, 109, 101, 110, 116, 97, 195, 167, 195, 163, 111>>
Transporte == <<84, 114, 97, 110, 115, 112, 111, 114, 116, 101>>
Lazer == <<76, 97, 122, 101, 114>>

-----------------------------------------------------------------------------
(* State after criar_tabelas(): three empty tables *)

NoEntrada == [tipo |-> "", valor |-> 0, conta_origem_id |-> None,
              data |-> <<>>, categoria_id |-> None, conta_destino_id |-> None]

Init ==
    /\ conta = {}
    /\ categoria = {}
    /\ transacao = {}
    /\ sqlite_sequence = [conta |-> 0, categoria |-> 0, transacao |-> 0]
    /\ ret = [op |-> "criar_tabelas", erro |-> OK, id |-> None]
    /\ entrada = NoEntrada

-----------------------------------------------------------------------------
(* Writes *)

\* seed_basico(): default account and categories when the tables are empty
seed_basico ==
    LET n == sqlite_sequence.conta
        m == sqlite_sequence.categoria
        semContas == Cardinality(conta) = 0
        semCategorias == Cardinality(categoria) = 0
    IN  /\ conta' = IF semContas
                    THEN conta \cup {[id |-> n + 1, nome |-> Carteira, saldo_inicial |-> 0]}
                    ELSE conta
        /\ categoria' = IF semCategorias
                        THEN categoria \cup
                             { [id |-> m + 1, nome |-> Salario, tipo |-> "receita"],
                               [id |-> m + 2, nome |-> Alimentacao, tipo |-> "despesa"],
                               [id |-> m + 3, nome |-> Transporte, tipo |-> "despesa"],
                               [id |-> m + 4, nome |-> Lazer, tipo |-> "despesa"] }
                        ELSE categoria
        /\ sqlite_sequence' = [sqlite_sequence EXCEPT
                                 !.conta = IF semContas THEN n + 1 ELSE n,
                                 !.categoria = IF semCategorias THEN m + 4 ELSE m]
        /\ ret' = [op |-> "seed_basico", erro |-> OK, id |-> None]
        /\ UNCHANGED <<transacao, entrada>>

\* _registro_existente(con, table, record_id)
registro_existente(table, record_id) == \E r \in table : r.id = record_id

\* criar_conta(nome, saldo_inicial): plain INSERT, returns lastrowid
criar_conta(nome, saldo_inicial) ==
    LET lastrowid == sqlite_sequence.conta + 1
    IN  /\ conta' = conta \cup {[id |-> lastrowid, nome |-> nome,
                                 saldo_inicial |-> saldo_inicial]}
        /\ sqlite_sequence' = [sqlite_sequence EXCEPT !.conta = lastrowid]
        /\ ret' = [op |-> "criar_conta", erro |-> OK, id |-> lastrowid]
        /\ UNCHANGED <<categoria, transacao, entrada>>

\* criar_categoria as a plain INSERT whose conflict is not looked up: a
\* second row is added under a new id
criar_categoria_insert(nome, tipo) ==
    IF tipo \notin ALLOWED_CATEGORY_TYPES
    THEN /\ ret' = [op |-> "criar_categoria", erro |-> ErrTipoCategoria, id |-> None]
         /\ UNCHANGED <<conta, categoria, transacao, sqlite_sequence, entrada>>
    ELSE LET rowid == sqlite_sequence.categoria + 1
         IN  /\ categoria' = categoria \cup {[id |-> rowid, nome |-> nome, tipo |-> tipo]}
             /\ sqlite_sequence' = [sqlite_sequence EXCEPT !.categoria = rowid]
             /\ ret' = [op |-> "criar_categoria", erro |-> OK, id |-> rowid]
             /\ UNCHANGED <<conta, transacao, entrada>>

\* criar_categoria(nome, tipo): INSERT OR IGNORE under UNIQUE(nome, tipo).
\* An ignored insert leaves lastrowid of the fresh connection at 0 and the
\* existing id is looked up; the AUTOINCREMENT counter advances either way.
criar_categoria(nome, tipo) ==
    IF tipo \notin ALLOWED_CATEGORY_TYPES
    THEN /\ ret' = [op |-> "criar_categoria", erro |-> ErrTipoCategoria, id |-> None]
         /\ UNCHANGED <<conta, categoria, transacao, sqlite_sequence, entrada>>
    ELSE LET rowid == sqlite_sequence.categoria + 1
             existe == \E c \in categoria : c.nome = nome /\ c.tipo = tipo
             lastrowid == IF existe THEN 0 ELSE rowid
             cat_id == (CHOOSE c \in categoria : c.nome = nome /\ c.tipo = tipo).id
         IN  /\ categoria' = IF existe THEN categoria
                             ELSE categoria \cup {[id |-> rowid, nome |-> nome, tipo |-> tipo]}
             /\ sqlite_sequence' = [sqlite_sequence EXCEPT !.categoria = rowid]
             /\ ret' = [op |-> "criar_categoria", erro |-> OK,
                        id |-> IF lastrowid = 0 THEN cat_id ELSE lastrowid]
             /\ UNCHANGED <<conta, transacao, entrada>>

\* _validar_transacao that accepts an income or expense without category
validar_categoria_opcional(tipo, valor, conta_origem_id, categoria_id, conta_destino_id) ==
    IF tipo \notin ALLOWED_TRANSACTION_TYPES THEN ErrTipo
    ELSE IF valor < 0 THEN ErrValor
    ELSE IF ~registro_existente(conta, conta_origem_id) THEN ErrOrigem
    ELSE IF conta_destino_id # None /\ ~registro_existente(conta, conta_destino_id)
         THEN ErrDestino
    ELSE IF tipo = "transferencia"
         THEN (IF conta_destino_id = None THEN ErrSemDestino ELSE OK)
    ELSE IF categoria_id = None THEN OK
    ELSE IF ~(\E c \in categoria : c.id = categoria_id) THEN ErrCategoria
    ELSE IF (CHOOSE c \in categoria : c.id = categoria_id).tipo # tipo
         THEN ErrIncompativel
    ELSE OK

\* _validar_transacao with the amount checked before the kind
validar_valor_primeiro(tipo, valor, conta_origem_id, categoria_id, conta_destino_id) ==
    IF valor < 0 THEN ErrValor
    ELSE IF tipo \notin ALLOWED_TRANSACTION_TYPES THEN ErrTipo
    ELSE IF ~registro_existente(conta, conta_origem_id) THEN ErrOrigem
    ELSE IF conta_destino_id # None /\ ~registro_existente(conta, conta_destino_id)
         THEN ErrDestino
    ELSE IF tipo = "transferencia"
         THEN (IF conta_destino_id = None THEN ErrSemDestino ELSE OK)
    ELSE IF categoria_id = None THEN ErrSemCategoria
    ELSE IF ~(\E c \in categoria : c.id = categoria_id) THEN ErrCategoria
    ELSE IF (CHOOSE c \in categoria : c.id = categoria_id).tipo # tipo
         THEN ErrIncompativel
    ELSE OK

\* _validar_transacao without the comparison of the category's tipo
validar_sem_comparar_tipo(tipo, valor, conta_origem_id, categoria_id, conta_destino_id) ==
    IF tipo \notin ALLOWED_TRANSACTION_TYPES THEN ErrTipo
    ELSE IF valor < 0 THEN ErrValor
    ELSE IF ~registro_existente(conta, conta_origem_id) THEN ErrOrigem
    ELSE IF conta_destino_id # None /\ ~registro_existente(conta, conta_destino_id)
         THEN ErrDestino
    ELSE IF tipo = "transferencia"
         THEN (IF conta_destino_id = None THEN ErrSemDestino ELSE OK)
    ELSE IF categoria_id = None THEN ErrSemCategoria
    ELSE IF ~(\E c \in categoria : c.id = categoria_id) THEN ErrCategoria
    ELSE OK

\* _validar_transacao that looks at the category of a transfer too, before
\* asking for its destination
validar_categoria_primeiro(tipo, valor, conta_origem_id, categoria_id, conta_destino_id) ==
    IF tipo \notin ALLOWED_TRANSACTION_TYPES THEN ErrTipo
    ELSE IF valor < 0 THEN ErrValor
    ELSE IF ~registro_existente(conta, conta_origem_id) THEN ErrOrigem
    ELSE IF conta_destino_id # None /\ ~registro_existente(conta, conta_destino_id)
         THEN ErrDestino
    ELSE IF categoria_id # None /\ ~(\E c \in categoria : c.id = categoria_id)
         THEN ErrCategoria
    ELSE IF tipo = "transferencia"
         THEN (IF conta_destino_id = None THEN ErrSemDestino ELSE OK)
    ELSE IF categoria_id = None THEN ErrSemCategoria
    ELSE IF (CHOOSE c \in categoria : c.id = categoria_id).tipo # tipo
         THEN ErrIncompativel
    ELSE OK

\* _validar_transacao(con, tipo, valor, conta_origem_id, categoria_id,
\* conta_destino_id): OK, or the first exception raised
validar_transacao(tipo, valor, conta_origem_id, categoria_id, conta_destino_id) ==
    IF tipo \notin ALLOWED_TRANSACTION_TYPES THEN ErrTipo
    ELSE IF valor < 0 THEN ErrValor
    ELSE IF ~registro_existente(conta, conta_origem_id) THEN ErrOrigem
    ELSE IF conta_destino_id # None /\ ~registro_existente(conta, conta_destino_id)
         THEN ErrDestino
    ELSE IF tipo = "transferencia"
         THEN (IF conta_destino_id = None THEN ErrSemDestino ELSE OK)
    ELSE IF categoria_id = None THEN ErrSemCategoria
    ELSE IF ~(\E c \in categoria : c.id = categoria_id) THEN ErrCategoria
    ELSE IF (CHOOSE c \in categoria : c.id = categoria_id).tipo # tipo
         THEN ErrIncompativel
    ELSE OK

\* Constraints of table transacao checked by the INSERT (foreign_keys = ON)
insert_aceito(tipo, valor, conta_origem_id, categoria_id, conta_destino_id) ==
    /\ tipo \in ALLOWED_TRANSACTION_TYPES
    /\ valor >= 0
    /\ categoria_id = None \/ registro_existente(categoria, categoria_id)
    /\ registro_existente(conta, conta_origem_id)
    /\ conta_destino_id = None \/ registro_existente(conta, conta_destino_id)

\* registrar_transacao that inserts first and validates afterwards, with no
\* rollback of the row
registrar_transacao_sem_rollback(tipo, valor, conta_origem_id, data, categoria_id, conta_destino_id) ==
    LET erro == validar_transacao(tipo, valor, conta_origem_id, categoria_id,
                                  conta_destino_id)
        lastrowid == sqlite_sequence.transacao + 1
        row == [id |-> lastrowid, tipo |-> tipo, data |-> data, valor |-> valor,
                categoria_id |-> categoria_id, conta_origem_id |-> conta_origem_id,
                conta_destino_id |-> conta_destino_id]
    IN  /\ transacao' = transacao \cup {row}
        /\ sqlite_sequence' = [sqlite_sequence EXCEPT !.transacao = lastrowid]
        /\ ret' = [op |-> "registrar_transacao", erro |-> erro,
                   id |-> IF erro = OK THEN lastrowid ELSE None]
        /\ UNCHANGED <<conta, categoria, entrada>>

\* registrar_transacao(tipo, valor, conta_origem_id, data=, categoria_id=,
\* conta_destino_id=): validation and INSERT in one transaction of the
\* connection; an exception rolls it back
registrar_transacao(tipo, valor, conta_origem_id, data, categoria_id, conta_destino_id) ==
    LET erro == validar_transacao(tipo, valor, conta_origem_id, categoria_id,
                                  conta_destino_id)
        lastrowid == sqlite_sequence.transacao + 1
        row == [id |-> lastrowid, tipo |-> tipo, data |-> data, valor |-> valor,
                categoria_id |-> categoria_id, conta_origem_id |-> conta_origem_id,
                conta_destino_id |-> conta_destino_id]
    IN  /\ IF erro # OK
           THEN /\ ret' = [op |-> "registrar_transacao", erro |-> erro, id |-> None]
                /\ UNCHANGED <<transacao, sqlite_sequence>>
           ELSE IF ~insert_aceito(tipo, valor, conta_origem_id, categoria_id,
                                  conta_destino_id)
           THEN /\ ret' = [op |-> "registrar_transacao", erro |-> IntegrityError,
                           id |-> None]
                /\ UNCHANGED <<transacao, sqlite_sequence>>
           ELSE /\ transacao' = transacao \cup {row}
                /\ sqlite_sequence' = [sqlite_sequence EXCEPT !.transacao = lastrowid]
                /\ ret' = [op |-> "registrar_transacao", erro |-> OK, id |-> lastrowid]
        /\ UNCHANGED <<conta, categoria, entrada>>

-----------------------------------------------------------------------------
(* Reads of src/financas.py *)

ErrConta == "Conta nao encontrada"

\* _total_por_tipo(con, conta_id, tipo)
total_por_tipo(conta_id, tipo) ==
    Soma({t \in transacao : t.conta_origem_id = conta_id /\ t.tipo = tipo})

\* _total_transferencias_entrando without the filter on tipo
total_entrando_qualquer_tipo(conta_id) ==
    Soma({t \in transacao : t.conta_destino_id = conta_id})

\* _total_transferencias_entrando(con, conta_id)
total_transferencias_entrando(conta_id) ==
    Soma({t \in transacao : t.conta_destino_id = conta_id /\ t.tipo = "transferencia"})

\* saldo_atual that credits an outgoing transfer instead of debiting it
saldo_atual_credita_saida(conta_id) ==
    IF ~(\E c \in conta : c.id = conta_id)
    THEN [erro |-> ErrConta, saldo |-> 0]
    ELSE LET row == CHOOSE c \in conta : c.id = conta_id
         IN  [erro |-> OK,
              saldo |-> row.saldo_inicial + total_por_tipo(conta_id, "receita")
                        - total_por_tipo(conta_id, "despesa")
                        + total_por_tipo(conta_id, "transferencia")
                        + total_transferencias_entrando(conta_id)]

\* saldo_atual(con, conta_id): [erro, saldo]
saldo_atual(conta_id) ==
    IF ~(\E c \in conta : c.id = conta_id)
    THEN [erro |-> ErrConta, saldo |-> 0]
    ELSE LET row == CHOOSE c \in conta : c.id = conta_id
             s0 == row.saldo_inicial
             s1 == s0 + total_por_tipo(conta_id, "receita")
             s2 == s1 - total_por_tipo(conta_id, "despesa")
             s3 == s2 - total_por_tipo(conta_id, "transferencia")
             s4 == s3 + total_transferencias_entrando(conta_id)
         IN  [erro |-> OK, saldo |-> s4]

RECURSIVE Ordenar_id_asc(_, _)
\* ORDER BY chave DESC, id ASC
Ordenar_id_asc(rows, chave) ==
    IF rows = {} THEN <<>>
    ELSE LET primeiro == CHOOSE r \in rows : \A q \in rows \ {r} :
                            \/ TextLt(chave[q], chave[r])
                            \/ chave[q] = chave[r] /\ q.id > r.id
         IN  <<primeiro>> \o Ordenar_id_asc(rows \ {primeiro}, chave)

RECURSIVE Ordenar(_, _)
\* ORDER BY chave DESC, id DESC
Ordenar(rows, chave) ==
    IF rows = {} THEN <<>>
    ELSE LET primeiro == CHOOSE r \in rows : \A q \in rows \ {r} :
                            \/ TextLt(chave[q], chave[r])
                            \/ chave[q] = chave[r] /\ q.id < r.id
         IN  <<primeiro>> \o Ordenar(rows \ {primeiro}, chave)

\* listar_transacoes(conta_id): ORDER BY datetime(data) DESC, id DESC
listar_transacoes(conta_id) ==
    LET rows == IF conta_id # None
                THEN {t \in transacao : t.conta_origem_id = conta_id
                                        \/ t.conta_destino_id = conta_id}
                ELSE transacao
    IN  Ordenar(rows, [t \in rows |-> datetime(t.data)])

\* the TEXT stored for a category kind
TipoTexto(tipo) ==
    IF tipo = "receita" THEN <<114, 101, 99, 101, 105, 116, 97>>
    ELSE <<100, 101, 115, 112, 101, 115, 97>>

RECURSIVE Ordenacoes(_, _)
\* every result ORDER BY chave[1], chave[2] (ascending) may give: the order of
\* rows with equal keys is not set by the query
Ordenacoes(rows, chave) ==
    IF rows = {} THEN {<<>>}
    ELSE LET menores == {r \in rows : \A q \in rows :
                            \/ TextLt(chave[r][1], chave[q][1])
                            \/ /\ chave[r][1] = chave[q][1]
                               /\ TextLe(chave[r][2], chave[q][2])}
         IN  UNION {{<<r>> \o L : L \in Ordenacoes(rows \ {r}, chave)} : r \in menores}

\* listar_categorias(tipo) of financas.py; tipo = "" is the absent (falsy) filter
listar_categorias(tipo) ==
    LET rows == IF tipo # "" THEN {c \in categoria : c.tipo = tipo} ELSE categoria
    IN  Ordenacoes(rows, [c \in rows |-> <<c.nome, <<>>>>])

\* listar_contas with the balance column filled from saldo_inicial
listar_contas_sem_lancamentos ==
    { [erro |-> OK,
       linhas |-> [i \in 1..Len(L) |->
                     [id |-> L[i].id, nome |-> L[i].nome,
                      saldo_inicial |-> L[i].saldo_inicial,
                      saldo_atual |-> L[i].saldo_inicial]]]
      : L \in Ordenacoes(conta, [a \in conta |-> <<a.nome, <<>>>>]) }

\* listar_contas(), read to its end by the caller: the rows ORDER BY nome,
\* each with saldo_atual(con, conta_id); the first balance that raises ends
\* the listing with that error, after the rows already produced
listar_contas ==
    { LET falhas == {i \in 1..Len(L) : saldo_atual(L[i].id).erro # OK}
          n == IF falhas = {} THEN Len(L)
               ELSE (CHOOSE i \in falhas : \A j \in falhas : i <= j) - 1
      IN  [erro |-> IF falhas = {} THEN OK ELSE ErrConta,
           linhas |-> [i \in 1..n |->
                         [id |-> L[i].id, nome |-> L[i].nome,
                          saldo_inicial |-> L[i].saldo_inicial,
                          saldo_atual |-> saldo_atual(L[i].id).saldo]]]
      : L \in Ordenacoes(conta, [a \in conta |-> <<a.nome, <<>>>>]) }

\* calendar.monthrange(ano, mes)[1]
monthrange(ano, mes) ==
    IF mes = 2
    THEN (IF (ano % 4 = 0 /\ ano % 100 # 0) \/ ano % 400 = 0 THEN 29 ELSE 28)
    ELSE IF mes \in {4, 6, 9, 11} THEN 30 ELSE 31

\* rows of WHERE data BETWEEN inicio AND fim, as both month queries build it
janela_mes(ano, mes) ==
    LET ultimo_dia == monthrange(ano, mes)
        inicio == Fmt4(ano) \o <<45>> \o Fmt2(mes) \o <<45, 48, 49>>
        fim == Fmt4(ano) \o <<45>> \o Fmt2(mes) \o <<45>> \o Fmt2(ultimo_dia)
    IN  {t \in transacao : Between(t.data, inicio, fim)}

\* listar_transacoes_mes(ano, mes)
listar_transacoes_mes(ano, mes) ==
    LET rows == janela_mes(ano, mes)
    IN  Ordenar(rows, [t \in rows |-> datetime(t.data)])

\* resumo_mes(ano, mes): [receitas, despesas, saldo]
resumo_mes(ano, mes) ==
    LET rows == janela_mes(ano, mes)
        receitas == Soma({t \in rows : t.tipo = "receita"})
        despesas == Soma({t \in rows : t.tipo = "despesa"})
    IN  [receitas |-> receitas, despesas |-> despesas, saldo |-> receitas - despesas]

-----------------------------------------------------------------------------
(* Reads of src/app.py (dashboard), on the same database file *)

\* buscar_transacoes(ano, mes, conta_id): ORDER BY t.data DESC, t.id DESC
buscar_transacoes(ano, mes, conta_id) ==
    LET porConta == IF conta_id # None /\ conta_id # 0
                    THEN {t \in transacao : t.conta_origem_id = conta_id
                                            \/ t.conta_destino_id = conta_id}
                    ELSE transacao
        hora0 == <<84, 48, 48, 58, 48, 48, 58, 48, 48>>
        inicio == Fmt4(ano) \o <<45>> \o Fmt2(mes) \o <<45, 48, 49>> \o hora0
        fim == IF mes = 12
               THEN Fmt4(ano + 1) \o <<45, 48, 49, 45, 48, 49>> \o hora0
               ELSE Fmt4(ano) \o <<45>> \o Fmt2(mes + 1) \o <<45, 48, 49>> \o hora0
        rows == IF ano # None /\ ano # 0 /\ mes # None /\ mes # 0
                THEN {t \in porConta : TextLe(inicio, t.data) /\ TextLt(t.data, fim)}
                ELSE porConta
    IN  Ordenar(rows, [t \in rows |-> t.data])

\* listar_categorias(tipo) of app.py; tipo = "" is the absent (falsy) filter
app_listar_categorias(tipo) ==
    IF tipo # ""
    THEN LET rows == {c \in categoria : c.tipo = tipo}
         IN  Ordenacoes(rows, [c \in rows |-> <<c.nome, <<>>>>])
    ELSE Ordenacoes(categoria, [c \in categoria |-> <<TipoTexto(c.tipo), c.nome>>])

Range(f) == {f[i] : i \in DOMAIN f}

\* resumo_mes(ano, mes) of app.py: [receitas, despesas, saldo]
app_resumo_mes(ano, mes) ==
    LET df == Range(buscar_transacoes(ano, mes, None))
        receitas == Soma({t \in df : t.tipo = "receita"})
        despesas == Soma({t \in df : t.tipo = "despesa"})
    IN  [receitas |-> receitas, despesas |-> despesas, saldo |-> receitas - despesas]

-----------------------------------------------------------------------------
(* The ledger under one call: the arguments of a registrar_transacao call   *)
(* are fixed at the start; the call is made, any number of times, on the    *)
(* databases that the seed, criar_conta and two everyday entries can build  *)

ContaInputs == {<<Wallet, 100>>}
Tipos == ALLOWED_TRANSACTION_TYPES \cup {"estorno"}
Agora == isoformat(2025, 1, 15, 12, 0, 0)

\* ids 1 to 4 are the seeded categories (1 receita, 2 to 4 despesa)
Entradas ==
    [tipo : Tipos, valor : {-1, 0, 50}, conta_origem_id : 1..(MaxContas + 1),
     data : {Agora}, categoria_id : {None, 1, 2, 5},
     conta_destino_id : {None} \cup 1..(MaxContas + 1)]

\* an income of the first account and a transfer from the first account to
\* the second
Cotidiano ==
    { [tipo |-> "receita", valor |-> 30, conta_origem_id |-> 1,
       categoria_id |-> 1, conta_destino_id |-> None],
      [tipo |-> "transferencia", valor |-> 20, conta_origem_id |-> 1,
       categoria_id |-> None, conta_destino_id |-> 2] }

InitEntrada ==
    /\ conta = {}
    /\ categoria = {}
    /\ transacao = {}
    /\ sqlite_sequence = [conta |-> 0, categoria |-> 0, transacao |-> 0]
    /\ ret = [op |-> "criar_tabelas", erro |-> OK, id |-> None]
    /\ entrada \in Entradas

\* the call would add a row: it is made only while the table has room
Cabe(tipo, valor, o, c, d) ==
    \/ Cardinality(transacao) < MaxTransacoes
    \/ validar_transacao(tipo, valor, o, c, d) # OK
    \/ ~insert_aceito(tipo, valor, o, c, d)

SeedBasico == seed_basico

CriarConta ==
    /\ Cardinality(conta) < MaxContas
    /\ \E p \in ContaInputs : criar_conta(p[1], p[2])

RegistrarCotidiano ==
    \E a \in Cotidiano :
        /\ Cabe(a.tipo, a.valor, a.conta_origem_id, a.categoria_id, a.conta_destino_id)
        /\ registrar_transacao(a.tipo, a.valor, a.conta_origem_id, Agora,
                               a.categoria_id, a.conta_destino_id)

RegistrarEntrada ==
    /\ Cabe(entrada.tipo, entrada.valor, entrada.conta_origem_id,
            entrada.categoria_id, entrada.conta_destino_id)
    /\ registrar_transacao(entrada.tipo, entrada.valor, entrada.conta_origem_id,
                           entrada.data, entrada.categoria_id,
                           entrada.conta_destino_id)

Next == SeedBasico \/ CriarConta \/ RegistrarCotidiano \/ RegistrarEntrada

Spec == InitEntrada /\ [][Next]_vars

-----------------------------------------------------------------------------
(* Month reports: one seeded account, dated entries around month boundaries *)

Datas ==
    { isoformat(2025, 1, 1, 0, 0, 0), isoformat(2025, 1, 31, 23, 59, 59),
      isoformat(2025, 2, 1, 0, 0, 0), isoformat(2025, 12, 31, 23, 59, 59),
      isoformat(2026, 1, 1, 0, 0, 0),
      strftime(2025, 1, 1), strftime(2025, 1, 31), strftime(2025, 2, 1) }

\* <<tipo, categoria_id, conta_destino_id>> on the seeded database
LancamentosMes ==
    { <<"receita", 1, None>>, <<"despesa", 2, None>>, <<"transferencia", None, 1>> }

ValoresMes == {10, 25}

Periodos == {<<2025, 1>>, <<2025, 2>>, <<2025, 12>>, <<2026, 1>>}

RegistrarNoMes ==
    \E k \in LancamentosMes, valor \in ValoresMes, data \in Datas :
        /\ Cabe(k[1], valor, 1, k[2], k[3])
        /\ registrar_transacao(k[1], valor, 1, data, k[2], k[3])

NextMes == SeedBasico \/ RegistrarNoMes

SpecMes == Init /\ [][NextMes]_vars

-----------------------------------------------------------------------------
(* Transfers among up to MaxContas + 1 accounts *)

ContasTransf == {<<Wallet, 100>>}
ValoresTransf == {0, 50}
IdsTransf == 1..(MaxContas + 1)

CriarContaTransf ==
    /\ Cardinality(conta) <= MaxContas
    /\ \E p \in ContasTransf : criar_conta(p[1], p[2])

RegistrarTransferencia ==
    \E valor \in ValoresTransf, o \in IdsTransf, d \in IdsTransf \cup {None} :
        /\ Cabe("transferencia", valor, o, None, d)
        /\ registrar_transacao("transferencia", valor, o, Agora, None, d)

NextTransf == CriarContaTransf \/ RegistrarTransferencia

SpecTransf == Init /\ [][NextTransf]_vars

-----------------------------------------------------------------------------
(* Accounts of several names, with the everyday entries among them *)

ContasNomes == {<<Wallet, 100>>, <<Bank, 0>>, <<Bank, 40>>}

CriarContaNomes ==
    /\ Cardinality(conta) < MaxContas
    /\ \E p \in ContasNomes : criar_conta(p[1], p[2])

NextContas == SeedBasico \/ CriarContaNomes \/ RegistrarCotidiano

SpecContas == Init /\ [][NextContas]_vars

-----------------------------------------------------------------------------
(* Categories alone: repeated criar_categoria calls *)

CategoriasCat ==
    { <<Food, "despesa">>, <<Food, "receita">>, <<Salary, "receita">>,
      <<Lazer, "despesa">>, <<Food, "investimento">> }

CriarCategoriaCat ==
    /\ sqlite_sequence.categoria <= MaxCategorias
    /\ \E p \in CategoriasCat : criar_categoria(p[1], p[2])

NextCat == CriarCategoriaCat

SpecCat == Init /\ [][NextCat]_vars

-----------------------------------------------------------------------------
(* Properties *)

RECURSIVE EfeitoHistorico(_, _)
\* signed effect of a history H on account a, one transaction at a time
EfeitoHistorico(H, a) ==
    IF H = {} THEN 0
    ELSE LET t == CHOOSE x \in H : TRUE
             ef == (IF t.tipo = "receita" /\ t.conta_origem_id = a THEN t.valor ELSE 0)
                 - (IF t.tipo = "despesa" /\ t.conta_origem_id = a THEN t.valor ELSE 0)
                 - (IF t.tipo = "transferencia" /\ t.conta_origem_id = a THEN t.valor ELSE 0)
                 + (IF t.tipo = "transferencia" /\ t.conta_destino_id = a THEN t.valor ELSE 0)
         IN  ef + EfeitoHistorico(H \ {t}, a)

\* C1: for every existing account, the balance is its initial balance plus
\* income, minus expenses, minus transfers out, plus transfers in, over the
\* whole stored history.
C1_SaldoDerivado ==
    \A a \in conta :
        saldo_atual(a.id) =
            [erro |-> OK, saldo |-> a.saldo_inicial + EfeitoHistorico(transacao, a.id)]

\* an account that received a transfer from another account and also has an
\* income or expense of its own
C1_Witness ==
    \E a \in conta : \E t1, t2 \in transacao :
        /\ t1.tipo = "transferencia" /\ t1.conta_destino_id = a.id
        /\ t1.conta_origem_id # a.id /\ t1.valor > 0
        /\ t2.tipo \in {"receita", "despesa"} /\ t2.conta_origem_id = a.id
        /\ t2.valor > 0

\* C2: a successful transfer of v between two distinct accounts changes the
\* source balance by -v, the destination balance by +v and no other balance.
C2_Transferencia ==
    [][ (ret'.op = "registrar_transacao" /\ ret'.erro = OK) =>
        \A t \in transacao' \ transacao :
            (t.tipo = "transferencia" /\ t.conta_origem_id # t.conta_destino_id) =>
                /\ saldo_atual(t.conta_origem_id)'.saldo
                     = saldo_atual(t.conta_origem_id).saldo - t.valor
                /\ saldo_atual(t.conta_destino_id)'.saldo
                     = saldo_atual(t.conta_destino_id).saldo + t.valor
                /\ \A c \in conta :
                     c.id \notin {t.conta_origem_id, t.conta_destino_id} =>
                        saldo_atual(c.id)' = saldo_atual(c.id) ]_vars

\* a transfer of a positive amount between two accounts was just recorded,
\* with a third account present
C2_Witness ==
    /\ ret.op = "registrar_transacao" /\ ret.erro = OK
    /\ \E t \in transacao :
        /\ t.id = ret.id /\ t.tipo = "transferencia" /\ t.valor > 0
        /\ t.conta_origem_id # t.conta_destino_id
        /\ \E c \in conta : c.id \notin {t.conta_origem_id, t.conta_destino_id}

\* C3: a rejected registrar_transacao appends nothing and leaves the store,
\* and so every balance, as it was.
C3_RejeicaoSemEfeito ==
    [][ (ret'.op = "registrar_transacao" /\ ret'.erro # OK) =>
        /\ transacao' = transacao
        /\ conta' = conta
        /\ categoria' = categoria
        /\ \A a \in conta : saldo_atual(a.id)' = saldo_atual(a.id) ]_vars

\* an expense with a category of the other kind was just rejected on a
\* database that already holds transactions
C3_Witness ==
    /\ ret.op = "registrar_transacao"
    /\ ret.erro = ErrIncompativel
    /\ transacao # {}

\* C6: criar_categoria of a (nome, tipo) that exists returns the existing id
\* and leaves the table as it was; no two rows share (nome, tipo).
C6_Idempotente ==
    /\ [][ \A c \in categoria :
             criar_categoria(c.nome, c.tipo) =>
                 /\ ret'.erro = OK
                 /\ ret'.id = c.id
                 /\ categoria' = categoria ]_vars
    /\ [](\A c1, c2 \in categoria :
             (c1.nome = c2.nome /\ c1.tipo = c2.tipo) => c1 = c2)

\* the last call was a criar_categoria of a pair that existed: it returned
\* the id of the row created before it
C6_Witness ==
    /\ ret.op = "criar_categoria" /\ ret.erro = OK
    /\ ret.id < sqlite_sequence.categoria
    /\ \E c \in categoria : c.id = ret.id

\* the arguments of the call: a receita or despesa, an amount that is not
\* negative, an existing source account and an existing category of the
\* other kind
C4_Caso ==
    /\ entrada.tipo \in {"receita", "despesa"}
    /\ entrada.valor >= 0
    /\ \E a \in conta : a.id = entrada.conta_origem_id
    /\ \E c \in categoria : c.id = entrada.categoria_id /\ c.tipo # entrada.tipo

\* C4 as stated: such a call fails with the category-kind mismatch.
C4_Original ==
    [][ (C4_Caso /\ RegistrarEntrada) => ret'.erro = ErrIncompativel ]_vars

\* C4 amended: such a call, made without a destination account or with one
\* that exists, fails with the category-kind mismatch.
C4_Incompativel ==
    [][ ( /\ C4_Caso
          /\ \/ entrada.conta_destino_id = None
             \/ \E a \in conta : a.id = entrada.conta_destino_id
          /\ RegistrarEntrada )
        => ret'.erro = ErrIncompativel ]_vars

\* a receita given a despesa category was rejected for the mismatch
C4_Witness ==
    /\ C4_Caso
    /\ entrada.tipo = "receita"
    /\ ret.op = "registrar_transacao"
    /\ ret.erro = ErrIncompativel

\* C5: a transfer with an amount that is not negative, an existing source
\* account and no destination fails for the missing destination, with or
\* without a category id.
C5_SemDestino ==
    [][ ( /\ entrada.tipo = "transferencia"
          /\ entrada.valor >= 0
          /\ \E a \in conta : a.id = entrada.conta_origem_id
          /\ entrada.conta_destino_id = None
          /\ RegistrarEntrada )
        => ret'.erro = ErrSemDestino ]_vars

\* a transfer without destination, carrying a category id that does not
\* exist, was rejected for the missing destination
C5_Witness ==
    /\ ret.op = "registrar_transacao"
    /\ entrada.tipo = "transferencia"
    /\ entrada.conta_destino_id = None
    /\ entrada.categoria_id # None
    /\ ~(\E c \in categoria : c.id = entrada.categoria_id)
    /\ ret.erro = ErrSemDestino

-----------------------------------------------------------------------------
(* The calendar, read off a stored timestamp *)

Num2(s, i) == (s[i] - 48) * 10 + (s[i + 1] - 48)
Num4(s, i) == Num2(s, i) * 100 + Num2(s, i + 2)

\* <<year, month, day, hour, minute, second>>; a date alone is midnight
Instante(s) ==
    IF Len(s) = 10 THEN <<Num4(s, 1), Num2(s, 6), Num2(s, 9), 0, 0, 0>>
    ELSE <<Num4(s, 1), Num2(s, 6), Num2(s, 9), Num2(s, 12), Num2(s, 15), Num2(s, 18)>>

InstLe(a, b) ==
    LET dif == {i \in 1..6 : a[i] # b[i]}
    IN  dif = {} \/ LET k == CHOOSE i \in dif : \A j \in dif : i <= j
                    IN  a[k] < b[k]

\* the timestamp lies in [first day of the month, first day of the next month)
NaJanela(s, ano, mes) ==
    LET inicio == <<ano, mes, 1, 0, 0, 0>>
        fim == IF mes = 12 THEN <<ano + 1, 1, 1, 0, 0, 0>>
               ELSE <<ano, mes + 1, 1, 0, 0, 0>>
    IN  InstLe(inicio, Instante(s)) /\ ~InstLe(fim, Instante(s))

TotalNaJanela(tipo, ano, mes) ==
    Soma({t \in transacao : t.tipo = tipo /\ NaJanela(t.data, ano, mes)})

\* every stored timestamp is a date-time YYYY-MM-DDTHH:MM:SS
SoDataHora == \A t \in transacao : Len(t.data) = 19

\* C7: the month summary counts exactly the income and expense transactions
\* of the half-open month window, in the command line and in the dashboard
\* (stated for stores of date-time timestamps).
C7_JanelaSemiAberta ==
    SoDataHora => \A p \in Periodos :
        /\ resumo_mes(p[1], p[2]).receitas = TotalNaJanela("receita", p[1], p[2])
        /\ resumo_mes(p[1], p[2]).despesas = TotalNaJanela("despesa", p[1], p[2])
        /\ app_resumo_mes(p[1], p[2]).receitas = TotalNaJanela("receita", p[1], p[2])
        /\ app_resumo_mes(p[1], p[2]).despesas = TotalNaJanela("despesa", p[1], p[2])

\* C8: the summary of December counts every income and expense timestamped
\* in December and none timestamped from 1 January of the next year on
\* (stated for stores of date-time timestamps).
C8_Dezembro ==
    SoDataHora => \A ano \in {2025} :
        LET dentro == {t \in transacao : Instante(t.data)[1] = ano
                                         /\ Instante(t.data)[2] = 12}
        IN  /\ resumo_mes(ano, 12).receitas = Soma({t \in dentro : t.tipo = "receita"})
            /\ resumo_mes(ano, 12).despesas = Soma({t \in dentro : t.tipo = "despesa"})
            /\ app_resumo_mes(ano, 12).receitas
                 = Soma({t \in dentro : t.tipo = "receita"})
            /\ app_resumo_mes(ano, 12).despesas
                 = Soma({t \in dentro : t.tipo = "despesa"})

\* C9: in the month summary, transfers count in neither total, each total is
\* the sum of its kind over the window, and the net is income minus expense
\* (stated for stores of date-time timestamps).
C9_Totais ==
    SoDataHora => \A p \in Periodos : \A r \in {resumo_mes(p[1], p[2]), app_resumo_mes(p[1], p[2])} :
        LET naJanela == {t \in transacao : NaJanela(t.data, p[1], p[2])}
            semTransf == {t \in naJanela : t.tipo # "transferencia"}
        IN  /\ r.receitas = Soma({t \in semTransf : t.tipo = "receita"})
            /\ r.despesas = Soma({t \in semTransf : t.tipo = "despesa"})
            /\ r.saldo = r.receitas - r.despesas
            /\ semTransf = {} => (r.receitas = 0 /\ r.despesas = 0 /\ r.saldo = 0)

\* every listing the two programs produce of the stored transactions
Listagens ==
    {listar_transacoes(f) : f \in {None, 1}}
    \cup {buscar_transacoes(None, None, f) : f \in {None, 1}}
    \cup {buscar_transacoes(p[1], p[2], None) : p \in Periodos}

\* C10: a listing runs from the latest timestamp to the earliest; of two rows
\* with the same timestamp the one with the larger id comes first; the id
\* given to a new transaction is larger than every id given before.
C10_Ordem ==
    /\ [](\A L \in Listagens : \A i, j \in 1..Len(L) :
            i < j =>
               /\ InstLe(Instante(L[j].data), Instante(L[i].data))
               /\ L[i].data = L[j].data => L[i].id > L[j].id)
    /\ [](Len(listar_transacoes(None)) = Cardinality(transacao)
          /\ Len(buscar_transacoes(None, None, None)) = Cardinality(transacao))
    /\ [][ (ret'.op = "registrar_transacao" /\ ret'.erro = OK) =>
             /\ \E t \in transacao' \ transacao : t.id = ret'.id
             /\ \A t \in transacao : t.id < ret'.id ]_vars

\* two transactions recorded with the same timestamp: both programs list the
\* later one first
C10_Witness ==
    LET L == listar_transacoes(None)
        B == buscar_transacoes(None, None, None)
    IN  /\ Len(L) = 2 /\ L[1].data = L[2].data /\ L[1].id > L[2].id
        /\ Len(B) = 2 /\ B[1].data = B[2].data /\ B[1].id > B[2].id

-----------------------------------------------------------------------------
(* Accounts *)

\* C11: criar_conta of a name that an account already has fails and adds no
\* account, so that no two accounts ever share a name.
C11_NomeUnico ==
    /\ [][ \A a \in conta : \A saldo \in {p[2] : p \in ContasTransf} :
             criar_conta(a.nome, saldo) => (ret'.erro # OK /\ conta' = conta) ]_vars
    /\ [](\A a, b \in conta : a.nome = b.nome => a = b)

-----------------------------------------------------------------------------
(* Category listings *)

\* the rows of L are in ascending order of (kind, name)
PorTipoENome(L) ==
    \A i, j \in 1..Len(L) :
        i < j => \/ TextLt(TipoTexto(L[i].tipo), TipoTexto(L[j].tipo))
                 \/ /\ L[i].tipo = L[j].tipo
                    /\ TextLe(L[i].nome, L[j].nome)

\* no two categories share a name: the order of every listing is then set
\* by its query
NomesDistintos == \A c1, c2 \in categoria : c1.nome = c2.nome => c1 = c2

\* C12: without a filter listar_categorias returns every category, by kind
\* and then by name; with a filter, exactly the categories of that kind
\* (read here on the databases whose category names are all distinct).
C12_Categorias ==
    NomesDistintos =>
    /\ \A L \in listar_categorias("") \cup app_listar_categorias("") :
          /\ Range(L) = categoria
          /\ Len(L) = Cardinality(categoria)
          /\ PorTipoENome(L)
    /\ \A tipo \in ALLOWED_CATEGORY_TYPES :
          \A L \in listar_categorias(tipo) \cup app_listar_categorias(tipo) :
              /\ Range(L) = {c \in categoria : c.tipo = tipo}
              /\ Len(L) = Cardinality(Range(L))

-----------------------------------------------------------------------------
(* Account listing *)

\* C13: listar_contas returns one row per account, in ascending order of
\* name, each with the balance saldo_atual gives for the account on the same
\* database; it either returns all the rows or fails.
C13_Contas ==
    \A R \in listar_contas :
        /\ R.erro = OK
        /\ Len(R.linhas) = Cardinality(conta)
        /\ {[id |-> l.id, nome |-> l.nome, saldo_inicial |-> l.saldo_inicial]
              : l \in Range(R.linhas)} = conta
        /\ \A i, j \in 1..Len(R.linhas) :
              i < j => TextLe(R.linhas[i].nome, R.linhas[j].nome)
        /\ \A l \in Range(R.linhas) :
              /\ saldo_atual(l.id).erro = OK
              /\ l.saldo_atual = saldo_atual(l.id).saldo

\* two accounts listed against the order of their ids, the balance of each
\* moved from its initial balance by a transfer between them
C13_Witness ==
    \E R \in listar_contas :
        /\ Len(R.linhas) = 2
        /\ R.linhas[1].id > R.linhas[2].id
        /\ TextLt(R.linhas[1].nome, R.linhas[2].nome)
        /\ \A l \in Range(R.linhas) : l.saldo_atual # l.saldo_inicial

-----------------------------------------------------------------------------
(* Order of the validation rules *)

\* the failures, in the order of the rules
Regras ==
    <<ErrTipo, ErrValor, ErrOrigem, ErrDestino, ErrSemDestino, ErrSemCategoria,
      ErrCategoria, ErrIncompativel>>

\* the rules that the arguments e break on the current database, each read
\* on its own
Violadas(e) ==
    LET comCategoria == e.tipo \in {"receita", "despesa"}
    IN  {i \in 1..Len(Regras) :
            \/ i = 1 /\ e.tipo \notin {"receita", "despesa", "transferencia"}
            \/ i = 2 /\ e.valor < 0
            \/ i = 3 /\ ~(\E a \in conta : a.id = e.conta_origem_id)
            \/ i = 4 /\ e.conta_destino_id # None
                     /\ ~(\E a \in conta : a.id = e.conta_destino_id)
            \/ i = 5 /\ e.tipo = "transferencia" /\ e.conta_destino_id = None
            \/ i = 6 /\ comCategoria /\ e.categoria_id = None
            \/ i = 7 /\ comCategoria /\ e.categoria_id # None
                     /\ ~(\E c \in categoria : c.id = e.categoria_id)
            \/ i = 8 /\ comCategoria
                     /\ \E c \in categoria : c.id = e.categoria_id /\ c.tipo # e.tipo}

\* C14: a call that breaks one or more rules fails with the failure of the
\* earliest rule it breaks.
C14_OrdemDasRegras ==
    [][ (RegistrarEntrada /\ Violadas(entrada) # {}) =>
          ret'.erro = Regras[CHOOSE i \in Violadas(entrada) :
                                \A j \in Violadas(entrada) : i <= j] ]_vars

\* an income without category and with a destination that does not exist,
\* made when accounts 1 and 2 exist, failed for the destination
C14_Witness ==
    /\ ret.op = "registrar_transacao"
    /\ ret.erro = ErrDestino
    /\ \A i \in 1..MaxContas : \E a \in conta : a.id = i
    /\ entrada.tipo = "receita"
    /\ entrada.categoria_id = None
    /\ Cardinality(Violadas(entrada)) >= 2

-----------------------------------------------------------------------------
(* Stored transactions *)

\* C15: every stored transaction has an amount that is not negative, a
\* source account that exists, a destination that exists when it has one, a
\* destination when it is a transfer, and otherwise a category that exists
\* and is of the kind of the transaction.
C15_Armazenadas ==
    \A t \in transacao :
        /\ t.valor >= 0
        /\ \E a \in conta : a.id = t.conta_origem_id
        /\ t.conta_destino_id # None => \E a \in conta : a.id = t.conta_destino_id
        /\ t.tipo = "transferencia" => t.conta_destino_id # None
        /\ t.tipo \in {"receita", "despesa"} =>
              \E c \in categoria : c.id = t.categoria_id /\ c.tipo = t.tipo
        /\ t.tipo \in {"receita", "despesa", "transferencia"}

\* the call under test was stored next to an everyday entry: an expense
\* with its category and a transfer with its destination
C15_Witness ==
    /\ ret.op = "registrar_transacao" /\ ret.erro = OK
    /\ \E t \in transacao : t.tipo = "despesa" /\ t.categoria_id # None
    /\ \E t \in transacao : t.tipo = "transferencia" /\ t.conta_destino_id # None

\* C16: no stored transfer carries a category id.
C16_TransferenciaSemCategoria ==
    \A t \in transacao : t.tipo = "transferencia" => t.categoria_id = None

-----------------------------------------------------------------------------
(* Timestamps stored as a date alone *)

\* C17: a transaction stored with a date alone (YYYY-MM-DD) is in the month
\* window of its calendar month and of no other period, in the month
\* listing and the month summary of both programs.
C17_DataSemHora ==
    \A t \in transacao : Len(t.data) = 10 =>
        \A p \in Periodos :
            LET doMes == Num4(t.data, 1) = p[1] /\ Num2(t.data, 6) = p[2]
            IN  /\ t \in Range(listar_transacoes_mes(p[1], p[2])) <=> doMes
                /\ t \in janela_mes(p[1], p[2]) <=> doMes
                /\ t \in Range(buscar_transacoes(p[1], p[2], None)) <=> doMes

====
